---- MODULE Spec2Model ----
(***************************************************************************)
(* State-machine model of scripts/performance-boxplot.py: the script reads *)
(* two JSON benchmark datasets, makes sure ./results exists, moves into    *)
(* it, and for every category of the master dataset reshapes both          *)
(* datasets to long form, concatenates them, draws a grouped boxplot,      *)
(* sizes the figure, saves <category>.png and clears the figure.           *)
(*                                                                         *)
(* Lengths of the figure are in tenths of a unit (15.5 -> 155, 0.6 -> 6).  *)
(* argv holds the positional arguments only, so argv[1] is sys.argv[1].    *)
(***************************************************************************)
EXTENDS Integers, Sequences, FiniteSets, TLC

\* ------------------------------------------------------------------ bounds

\* Most categories in the master dataset.
MaxCats == 2
\* Most timing samples of one test.
MaxSamples == 2
\* Most positional arguments of an invocation.
MaxArgs == 3

\* --------------------------------------------------------------- constants

figure_width == 155
item_height == 6
MasterArgIndex == 1
\* Variant: the second file is taken from the first argument again.
CurrentArgIndexSame == MasterArgIndex
CurrentArgIndex == 2

\* ------------------------------------------------------------ input space

\* Names a benchmark file may use for its categories and tests.  "x/y" is a
\* category name that is no file name of the flat results directory.
CatNames == {"cat1", "cat2", "x/y"}
TestNames == <<"testA", "testB">>

\* The n timing samples 1, 2, ..., n.
Samples(n) == [j \in 1..n |-> j]

RECURSIVE Ascending(_)
\* The members of a set of numbers, smallest first.
Ascending(S) ==
    IF S = {} THEN <<>>
    ELSE LET m == CHOOSE x \in S : \A y \in S : x <= y
         IN  <<m>> \o Ascending(S \ {m})

\* A test mapping (a JSON object, in document order) is a sequence of
\* [name, samples]: any subset of the test names, each with 0..MaxSamples
\* samples.
Mappings ==
    UNION { { [k \in 1..Cardinality(S) |->
                  [name |-> TestNames[Ascending(S)[k]],
                   samples |-> Samples(lens[Ascending(S)[k]])]] :
                lens \in [S -> 0..MaxSamples] } :
            S \in SUBSET (1..Len(TestNames)) }

\* The mapping every category but at most one carries, in both datasets.
RegularTests == [i \in 1..Len(TestNames) |->
                    [name |-> TestNames[i], samples |-> Samples(MaxSamples)]]

\* Orders of n distinct category names.
CatOrders(n) == { s \in [1..n -> CatNames] : \A i, j \in 1..n : i # j => s[i] # s[j] }

RECURSIVE SelectEntries(_, _)
\* The entries of a sequence whose category is in keep, order kept.
SelectEntries(s, keep) ==
    IF s = <<>> THEN <<>>
    ELSE IF Head(s).cat \in keep
         THEN <<Head(s)>> \o SelectEntries(Tail(s), keep)
         ELSE SelectEntries(Tail(s), keep)

\* A dataset pair of Len(order) categories, of which at most one (position
\* p, 0 for none) departs from the regular shape: its master mapping is m
\* and its current mapping is c.tests, or is missing when c.present is false.
MasterOf(order, p, m) ==
    [i \in 1..Len(order) |->
        [cat |-> order[i], tests |-> IF i = p THEN m ELSE RegularTests]]

CurrentOf(order, p, c) ==
    SelectEntries(
        [i \in 1..Len(order) |->
            [cat |-> order[i],
             tests |-> IF i = p /\ c.present THEN c.tests ELSE RegularTests]],
        { order[i] : i \in { j \in 1..Len(order) : j # p \/ c.present } })

\* What the current dataset may hold for the category at position p.
CurrentChoices ==
    { [present |-> TRUE, tests |-> t] : t \in Mappings }
        \cup { [present |-> FALSE, tests |-> <<>>] }

\* The scenario of the specification's testable properties.
ScenarioMaster ==
    << [cat |-> "cat1",
        tests |-> << [name |-> "testA", samples |-> <<1, 2, 3>>],
                     [name |-> "testB", samples |-> <<4, 5, 6>>] >>] >>
ScenarioCurrent ==
    << [cat |-> "cat1",
        tests |-> << [name |-> "testA", samples |-> <<2, 3, 4>>],
                     [name |-> "testB", samples |-> <<3, 4, 5>>] >>] >>

\* A two-category regular pair, used where the environment is what varies.
TwoRegular ==
    [master  |-> << [cat |-> "cat1", tests |-> RegularTests],
                    [cat |-> "cat2", tests |-> RegularTests] >>,
     current |-> << [cat |-> "cat1", tests |-> RegularTests],
                    [cat |-> "cat2", tests |-> RegularTests] >>]

\* The i-th positional argument of an invocation.
ArgName(i) == IF i = 1 THEN "master.json" ELSE IF i = 2 THEN "current.json" ELSE "extra"

FileOk(d) == [status |-> "ok", data |-> d]
FileMissing == [status |-> "missing", data |-> <<>>]
FileInvalid == [status |-> "invalid", data |-> <<>>]

\* The states of <start dir>/results an invocation may find.
ResultsStates ==
    { [dir |-> "absent", files |-> {}], [dir |-> "file", files |-> {}],
      [dir |-> "dir", files |-> {}], [dir |-> "dir", files |-> {"cat1.png"}],
      [dir |-> "dir", files |-> {"old.png"}] }

\* ------------------------------------------------------------------ state

VARIABLES
    argv,               \* positional arguments (sys.argv[1:])
    disk,               \* the two input files of the starting directory
    resultsDir,         \* <start dir>/results: "absent", "dir" or "file"
    resultsFiles,       \* names of the files inside results
    cwd,                \* process working directory: "orig" or "results"
    pc,                 \* position of the script
    error,              \* "none" or the exception that ended the run
    failedAt,           \* "none" or the position the exception was raised at
    loaded,             \* which of data_master, data_current are bound
    data_master,
    data_current,
    theme,              \* seaborn's global theme
    idx,                \* position of the loop in data_master
    dataframe_master,
    dataframe_current,
    concated,
    canvas,             \* categories whose artists the current figure holds
    figsize,            \* <<>> or <<width, height>> of the figure
    written,            \* files written by this run: [dir, name]
    events,             \* what this run did, in order: [op, arg, cwd]
    lib,                \* observed behaviour of the plotting library build
    run,                \* 1, or 2 in a second invocation
    prev                \* how the first invocation ended

invocation == <<argv, disk>>
filesystem == <<resultsDir, resultsFiles>>
control == <<pc, error, failedAt>>
bindings == <<loaded, data_master, data_current>>
tables == <<dataframe_master, dataframe_current, concated>>
figure == <<canvas, figsize>>
history == <<run, prev>>

vars == <<argv, disk, resultsDir, resultsFiles, cwd, pc, error, failedAt, loaded,
          data_master, data_current, theme, idx, dataframe_master,
          dataframe_current, concated, canvas, figsize, written, events, lib,
          run, prev>>

\* ---------------------------------------------------------------- helpers

Event(op, arg) == [op |-> op, arg |-> arg, cwd |-> cwd]

\* open(path): a relative path is looked up in the working directory; the
\* input files live in the starting directory only.
ReadFile(path) ==
    IF cwd = "orig" /\ path = "master.json" THEN disk.master
    ELSE IF cwd = "orig" /\ path = "current.json" THEN disk.current
    ELSE FileMissing

\* os.path.exists(path) is true of a directory and of a plain file.
PathExists(d) == d # "absent"

\* Variant: the directory is created without looking first.
NeedsMkdirAlways(d) == TRUE

\* if not os.path.exists(path): os.mkdir(path)
NeedsMkdir(d) == ~PathExists(d)

\* Variant: the working directory is left where it was.
ChdirTargetStay == "orig"

\* os.chdir(path)
ChdirTarget == "results"

Keys(d) == { d[i].cat : i \in 1..Len(d) }
HasKey(d, c) == c \in Keys(d)
Lookup(d, c) == d[CHOOSE i \in 1..Len(d) : d[i].cat = c].tests

\* Variant: d.get(c, {}), an absent key reads as an empty mapping.
GetItemDefault(d, c) ==
    [ok |-> TRUE, tests |-> IF HasKey(d, c) THEN Lookup(d, c) ELSE <<>>]

\* d[c]: the mapping under key c, or KeyError.
GetItem(d, c) ==
    IF HasKey(d, c) THEN [ok |-> TRUE, tests |-> Lookup(d, c)]
    ELSE [ok |-> FALSE, tests |-> <<>>]

\* The loop variable at position i of data_master's iteration order.
Pallet(i) == data_master[i].cat

\* pandas.DataFrame(dict of lists) raises ValueError unless all the lists
\* have the same length.
DataFrameOk(tests) ==
    \A i, j \in 1..Len(tests) : Len(tests[i].samples) = Len(tests[j].samples)

\* The wide table: one column per test, one row per sample position.
DataFrame(tests) ==
    [columns |-> [i \in 1..Len(tests) |-> tests[i].name],
     nrows   |-> IF tests = <<>> THEN 0 ELSE Len(tests[1].samples),
     data    |-> [i \in 1..Len(tests) |-> tests[i].samples]]

\* Variant: only the first column is unpivoted.
MeltFirstColumn(df) ==
    [k \in 1..(IF df.columns = <<>> THEN 0 ELSE df.nrows) |->
        [index |-> k - 1, Test |-> df.columns[1], Time |-> df.data[1][k]]]

\* pandas.melt(df, var_name='Test', value_name='Time'): column after column,
\* one row per cell, indexed from 0.
Melt(df) ==
    [k \in 1..(Len(df.columns) * df.nrows) |->
        [index |-> k - 1,
         Test  |-> df.columns[((k - 1) \div df.nrows) + 1],
         Time  |-> df.data[((k - 1) \div df.nrows) + 1][((k - 1) % df.nrows) + 1]]]

\* dataframe['branch'] = label
WithBranch(rows, label) ==
    [k \in 1..Len(rows) |->
        [index |-> rows[k].index, Test |-> rows[k].Test, Time |-> rows[k].Time,
         branch |-> label]]

\* Variant: the second table is left out.
ConcatFirstOnly(a, b) == a

\* pandas.concat([a, b], ignore_index=True): all rows of a, then all rows of
\* b, renumbered from 0.
Concat(a, b) ==
    [k \in 1..(Len(a) + Len(b)) |->
        [index  |-> k - 1,
         Test   |-> IF k <= Len(a) THEN a[k].Test ELSE b[k - Len(a)].Test,
         Time   |-> IF k <= Len(a) THEN a[k].Time ELSE b[k - Len(a)].Time,
         branch |-> IF k <= Len(a) THEN a[k].branch ELSE b[k - Len(a)].branch]]

\* Variant: the height does not scale with the tests.
FigureHeightOneItem(tests) == item_height

\* height = item_height * len(data_master[pallet])
FigureHeight(tests) == item_height * Len(tests)

\* Variant: the category is left out of the file name.
SaveNameBare(pallet) == ".png"

\* pallet + '.png'
SaveName(pallet) == pallet \o ".png"

\* Whether a file of that category can be created in the flat results
\* directory.
FilesystemSafe(pallet) == pallet # "x/y"

\* Variant: the figure is not cleared.
ClearFigureKeep(c) == c

\* figure.clf(): the figure holds no artists or axes afterwards.
ClearFigure(c) == {}

\* Variant: the loop ends after its first category.
LoopPcOnce(i) == IF i <= 1 /\ i <= Len(data_master) THEN "reshape_master" ELSE "done"

\* for pallet in data_master: the position after category i - 1.
LoopPc(i) == IF i <= Len(data_master) THEN "reshape_master" ELSE "done"

\* What a build of the plotting library does in a case its interface leaves
\* open; it is the same every time within one build.
LibOutcomes(known) == IF known = "unobserved" THEN {"fails", "works"} ELSE {known}

\* ------------------------------------------------------------------- init

\* An invocation: its arguments, the two input files of the starting
\* directory and the state of ./results before the run.  Either the
\* datasets vary (two arguments, readable files, no results directory yet)
\* or the environment does (argument count, file states, results).
Init ==
    /\ \/ /\ \E n \in 0..MaxCats : \E order \in CatOrders(n) : \E p \in 0..n :
             \E m \in Mappings : \E c \in CurrentChoices :
                disk = [master  |-> FileOk(MasterOf(order, p, m)),
                        current |-> FileOk(CurrentOf(order, p, c))]
          /\ argv = [i \in 1..2 |-> ArgName(i)]
          /\ resultsDir = "absent"
          /\ resultsFiles = {}
       \/ /\ disk = [master |-> FileOk(ScenarioMaster), current |-> FileOk(ScenarioCurrent)]
          /\ argv = [i \in 1..2 |-> ArgName(i)]
          /\ resultsDir = "absent"
          /\ resultsFiles = {}
       \/ /\ \E n \in 0..MaxArgs : argv = [i \in 1..n |-> ArgName(i)]
          /\ \E fm \in {FileOk(TwoRegular.master), FileMissing, FileInvalid} :
             \E fc \in {FileOk(TwoRegular.current), FileMissing, FileInvalid} :
                disk = [master |-> fm, current |-> fc]
          /\ \E r \in ResultsStates :
                /\ resultsDir = r.dir
                /\ resultsFiles = r.files
    /\ cwd = "orig"
    /\ pc = "prepare"
    /\ error = "none"
    /\ failedAt = "none"
    /\ loaded = {}
    /\ data_master = <<>>
    /\ data_current = <<>>
    /\ theme = "default"
    /\ idx = 0
    /\ dataframe_master = <<>>
    /\ dataframe_current = <<>>
    /\ concated = <<>>
    /\ canvas = {}
    /\ figsize = <<>>
    /\ written = {}
    /\ events = <<>>
    /\ lib = [emptyPlot |-> "unobserved", zeroHeight |-> "unobserved"]
    /\ run = 1
    /\ prev = [outcome |-> "none", files |-> {}]

\* ---------------------------------------------------------------- actions

\* An uncaught exception: the process ends where it stands; nothing is undone.
Raise(exc) ==
    /\ pc' = "failed"
    /\ error' = exc
    /\ failedAt' = pc

\* Lines 10-13: path = <cwd>/results; create it unless it exists.
PrepareOutputDir ==
    /\ pc = "prepare"
    /\ IF NeedsMkdir(resultsDir)
       THEN IF PathExists(resultsDir)
            THEN /\ Raise("FileExistsError")
                 /\ UNCHANGED <<resultsDir, events>>
            ELSE /\ resultsDir' = "dir"
                 /\ events' = Append(events, Event("mkdir", "results"))
                 /\ pc' = "load_master"
                 /\ UNCHANGED <<error, failedAt>>
       ELSE /\ pc' = "load_master"
            /\ UNCHANGED <<resultsDir, events, error, failedAt>>
    /\ UNCHANGED <<invocation, resultsFiles, cwd, bindings, theme, idx, tables,
                   figure, written, lib, history>>

\* Lines 15-16: data_master = json.load(open(sys.argv[1])).
LoadMaster ==
    /\ pc = "load_master"
    /\ IF Len(argv) < MasterArgIndex
       THEN /\ Raise("IndexError")
            /\ UNCHANGED <<loaded, data_master, events>>
       ELSE LET f == ReadFile(argv[MasterArgIndex]) IN
            IF f.status = "missing"
            THEN /\ Raise("FileNotFoundError")
                 /\ UNCHANGED <<loaded, data_master, events>>
            ELSE /\ events' = Append(events, Event("read", argv[MasterArgIndex]))
                 /\ IF f.status = "invalid"
                    THEN /\ Raise("JSONDecodeError")
                         /\ UNCHANGED <<loaded, data_master>>
                    ELSE /\ data_master' = f.data
                         /\ loaded' = loaded \cup {"master"}
                         /\ pc' = "load_current"
                         /\ UNCHANGED <<error, failedAt>>
    /\ UNCHANGED <<invocation, filesystem, cwd, data_current, theme, idx, tables,
                   figure, written, lib, history>>

\* Lines 18-19: data_current = json.load(open(sys.argv[2])).
LoadCurrent ==
    /\ pc = "load_current"
    /\ IF Len(argv) < CurrentArgIndex
       THEN /\ Raise("IndexError")
            /\ UNCHANGED <<loaded, data_current, events>>
       ELSE LET f == ReadFile(argv[CurrentArgIndex]) IN
            IF f.status = "missing"
            THEN /\ Raise("FileNotFoundError")
                 /\ UNCHANGED <<loaded, data_current, events>>
            ELSE /\ events' = Append(events, Event("read", argv[CurrentArgIndex]))
                 /\ IF f.status = "invalid"
                    THEN /\ Raise("JSONDecodeError")
                         /\ UNCHANGED <<loaded, data_current>>
                    ELSE /\ data_current' = f.data
                         /\ loaded' = loaded \cup {"current"}
                         /\ pc' = "chdir"
                         /\ UNCHANGED <<error, failedAt>>
    /\ UNCHANGED <<invocation, filesystem, cwd, data_master, theme, idx, tables,
                   figure, written, lib, history>>

\* Line 21: os.chdir(path); path must be a directory.
Chdir ==
    /\ pc = "chdir"
    /\ IF resultsDir = "dir"
       THEN /\ cwd' = ChdirTarget
            /\ events' = Append(events, Event("chdir", "results"))
            /\ pc' = "set_theme"
            /\ UNCHANGED <<error, failedAt>>
       ELSE /\ Raise(IF resultsDir = "file" THEN "NotADirectoryError"
                     ELSE "FileNotFoundError")
            /\ UNCHANGED <<cwd, events>>
    /\ UNCHANGED <<invocation, filesystem, bindings, theme, idx, tables, figure,
                   written, lib, history>>

\* Line 23: seaborn.set_theme(style="ticks", palette="pastel"), then the
\* loop is entered.
SetTheme ==
    /\ pc = "set_theme"
    /\ theme' = "ticks/pastel"
    /\ idx' = 1
    /\ pc' = LoopPc(1)
    /\ UNCHANGED <<invocation, filesystem, cwd, error, failedAt, bindings, tables,
                   figure, written, events, lib, history>>

\* Lines 26-28: the master long-form table of the category.
ReshapeMaster ==
    /\ pc = "reshape_master"
    /\ LET item == GetItem(data_master, Pallet(idx)) IN
       IF ~item.ok
       THEN /\ Raise("KeyError")
            /\ UNCHANGED dataframe_master
       ELSE IF ~DataFrameOk(item.tests)
       THEN /\ Raise("ValueError")
            /\ UNCHANGED dataframe_master
       ELSE /\ dataframe_master' = WithBranch(Melt(DataFrame(item.tests)), "master")
            /\ pc' = "reshape_current"
            /\ UNCHANGED <<error, failedAt>>
    /\ UNCHANGED <<invocation, filesystem, cwd, bindings, theme, idx,
                   dataframe_current, concated, figure, written, events, lib,
                   history>>

\* Lines 30-32: the current long-form table of the category.
ReshapeCurrent ==
    /\ pc = "reshape_current"
    /\ LET item == GetItem(data_current, Pallet(idx)) IN
       IF ~item.ok
       THEN /\ Raise("KeyError")
            /\ UNCHANGED dataframe_current
       ELSE IF ~DataFrameOk(item.tests)
       THEN /\ Raise("ValueError")
            /\ UNCHANGED dataframe_current
       ELSE /\ dataframe_current' = WithBranch(Melt(DataFrame(item.tests)), "current")
            /\ pc' = "concat"
            /\ UNCHANGED <<error, failedAt>>
    /\ UNCHANGED <<invocation, filesystem, cwd, bindings, theme, idx,
                   dataframe_master, concated, figure, written, events, lib,
                   history>>

\* Line 34: concated = pandas.concat([master, current], ignore_index=True).
ConcatTables ==
    /\ pc = "concat"
    /\ concated' = Concat(dataframe_master, dataframe_current)
    /\ pc' = "draw"
    /\ UNCHANGED <<invocation, filesystem, cwd, error, failedAt, bindings, theme,
                   idx, dataframe_master, dataframe_current, figure, written,
                   events, lib, history>>

\* Lines 36-38: seaborn.boxplot(...) on the current figure.  What a build
\* does with a table of no rows is not fixed by the library's interface.
Draw ==
    /\ pc = "draw"
    /\ \E o \in (IF concated = <<>> THEN LibOutcomes(lib.emptyPlot) ELSE {"works"}) :
          /\ lib' = IF concated = <<>> THEN [lib EXCEPT !.emptyPlot = o] ELSE lib
          /\ IF o = "fails"
             THEN /\ Raise("ValueError")
                  /\ UNCHANGED <<canvas, events>>
             ELSE /\ canvas' = canvas \cup {Pallet(idx)}
                  /\ events' = Append(events, Event("draw", Pallet(idx)))
                  /\ pc' = "set_size"
                  /\ UNCHANGED <<error, failedAt>>
    /\ UNCHANGED <<invocation, filesystem, cwd, bindings, theme, idx, tables,
                   figsize, written, history>>

\* Lines 40-42: figure.set_size_inches(figure_width, height).
SetSize ==
    /\ pc = "set_size"
    /\ figsize' = <<figure_width, FigureHeight(Lookup(data_master, Pallet(idx)))>>
    /\ events' = Append(events, Event("size", Pallet(idx)))
    /\ pc' = "save"
    /\ UNCHANGED <<invocation, filesystem, cwd, error, failedAt, bindings, theme,
                   idx, tables, canvas, written, lib, history>>

\* Line 43: figure.savefig(pallet + '.png', bbox_inches="tight"): the figure
\* is rendered, then the file is created in the working directory or
\* replaced.  Whether a figure of height 0 can be rendered is not fixed by
\* the library's interface.
Save ==
    /\ pc = "save"
    /\ \E o \in (IF figsize[2] = 0 THEN LibOutcomes(lib.zeroHeight) ELSE {"works"}) :
          /\ lib' = IF figsize[2] = 0 THEN [lib EXCEPT !.zeroHeight = o] ELSE lib
          /\ IF o = "fails"
             THEN /\ Raise("ValueError")
                  /\ UNCHANGED <<resultsFiles, written, events>>
             ELSE IF ~FilesystemSafe(Pallet(idx))
             THEN /\ Raise("FileNotFoundError")
                  /\ UNCHANGED <<resultsFiles, written, events>>
             ELSE /\ resultsFiles' = IF cwd = "results"
                                     THEN resultsFiles \cup {SaveName(Pallet(idx))}
                                     ELSE resultsFiles
                  /\ written' = written \cup
                                  {[dir |-> cwd, name |-> SaveName(Pallet(idx))]}
                  /\ events' = Append(events, Event("save", Pallet(idx)))
                  /\ pc' = "clear"
                  /\ UNCHANGED <<error, failedAt>>
    /\ UNCHANGED <<invocation, resultsDir, cwd, bindings, theme, idx, tables,
                   figure, history>>

\* Line 44: figure.clf(), then the loop moves to the next category.
Clear ==
    /\ pc = "clear"
    /\ canvas' = ClearFigure(canvas)
    /\ events' = Append(events, Event("clear", Pallet(idx)))
    /\ idx' = idx + 1
    /\ pc' = LoopPc(idx + 1)
    /\ UNCHANGED <<invocation, filesystem, cwd, error, failedAt, bindings, theme,
                   tables, figsize, written, lib, history>>

\* The script is invoked again with the same arguments from the same
\* starting directory: a new process, the file system as the first left it.
Rerun ==
    /\ run = 1
    /\ pc \in {"done", "failed"}
    /\ run' = 2
    /\ prev' = [outcome |-> pc, files |-> resultsFiles]
    /\ cwd' = "orig"
    /\ pc' = "prepare"
    /\ error' = "none"
    /\ failedAt' = "none"
    /\ loaded' = {}
    /\ data_master' = <<>>
    /\ data_current' = <<>>
    /\ theme' = "default"
    /\ idx' = 0
    /\ dataframe_master' = <<>>
    /\ dataframe_current' = <<>>
    /\ concated' = <<>>
    /\ canvas' = {}
    /\ figsize' = <<>>
    /\ written' = {}
    /\ events' = <<>>
    /\ UNCHANGED <<invocation, filesystem, lib>>

Next ==
    \/ PrepareOutputDir
    \/ LoadMaster
    \/ LoadCurrent
    \/ Chdir
    \/ SetTheme
    \/ ReshapeMaster
    \/ ReshapeCurrent
    \/ ConcatTables
    \/ Draw
    \/ SetSize
    \/ Save
    \/ Clear

Spec == Init /\ [][Next]_vars

NextTwice == Next \/ Rerun

\* Two invocations in a row.
SpecTwice == Init /\ [][NextTwice]_vars

\* ------------------------------------------------------------- properties

RECURSIVE SampleCount(_)
\* The number of samples of a test mapping, summed over its tests.
SampleCount(tests) ==
    IF tests = <<>> THEN 0
    ELSE Len(Head(tests).samples) + SampleCount(Tail(tests))

TestSet(tests) == { tests[i].name : i \in 1..Len(tests) }

\* The rows of a long-form table that carry a test name / a branch label.
RowsOfTest(rows, t) == { k \in 1..Len(rows) : rows[k].Test = t }
RowsOfBranch(rows, b) == { k \in 1..Len(rows) : rows[k].branch = b }

\* Where the run stands, or stood when it failed.
Stage == IF pc = "failed" THEN failedAt ELSE pc

InCategory ==
    Stage \in {"reshape_master", "reshape_current", "concat", "draw", "set_size",
               "save", "clear"}
MasterReshaped ==
    Stage \in {"reshape_current", "concat", "draw", "set_size", "save", "clear"}
CurrentReshaped == Stage \in {"concat", "draw", "set_size", "save", "clear"}
Concatenated == Stage \in {"draw", "set_size", "save", "clear"}

\* The mappings of the category the loop is at.
MasterTests == Lookup(data_master, data_master[idx].cat)
CurrentTests == Lookup(data_current, data_master[idx].cat)

IdenticalKeys(m, c) ==
    /\ Keys(m) = Keys(c)
    /\ \A k \in Keys(m) : TestSet(Lookup(m, k)) = TestSet(Lookup(c, k))

ImageOf(c) == [dir |-> "results", name |-> c \o ".png"]

IsLoopEvent(e) == e.op \in {"draw", "size", "save", "clear"}
LoopEvents == SelectSeq(events, IsLoopEvent)
LoopOps == <<"draw", "size", "save", "clear">>

\* A long-form table holds exactly the samples of a mapping: per test as
\* many rows as samples, in sample order, and no row of another test.
HoldsSamples(rows, tests) ==
    /\ Len(rows) = SampleCount(tests)
    /\ \A i \in 1..Len(tests) :
          Cardinality(RowsOfTest(rows, tests[i].name)) = Len(tests[i].samples)
    /\ \A k \in 1..Len(rows) :
          \E i \in 1..Len(tests) :
             /\ rows[k].Test = tests[i].name
             /\ \E j \in 1..Len(tests[i].samples) : rows[k].Time = tests[i].samples[j]

\* C1: a complete run on inputs with identical category and test keys writes
\* exactly the files <category>.png, one per master category, all inside
\* results, and nothing else.
C1_OneImagePerCategory ==
    (pc = "done" /\ IdenticalKeys(data_master, data_current)) =>
        /\ written = { ImageOf(c) : c \in Keys(data_master) }
        /\ Cardinality(written) = Len(data_master)
        /\ { w.name : w \in written } \subseteq resultsFiles

C1_Witness ==
    /\ pc = "done"
    /\ IdenticalKeys(data_master, data_current)
    /\ Len(data_master) = 2
    /\ Cardinality(written) = 2

\* C2 as claimed: reshaping a branch's mapping is never an error, also when
\* its tests have different sample counts, and the long-form table then has
\* as many rows as the mapping has samples.
C2_Original ==
    /\ (pc = "failed" /\ failedAt \in {"reshape_master", "reshape_current"}) =>
          error # "ValueError"
    /\ MasterReshaped => Len(dataframe_master) = SampleCount(MasterTests)
    /\ CurrentReshaped => Len(dataframe_current) = SampleCount(CurrentTests)

\* C2 amended: a branch's long-form table holds exactly the samples of its
\* mapping, which happens only when all tests of the mapping have the same
\* number of samples; with different sample counts building the table
\* raises ValueError, and ValueError at a reshape step has no other cause.
C2_LosslessWhenAligned ==
    /\ MasterReshaped =>
          /\ DataFrameOk(MasterTests)
          /\ HoldsSamples(dataframe_master, MasterTests)
    /\ CurrentReshaped =>
          /\ DataFrameOk(CurrentTests)
          /\ HoldsSamples(dataframe_current, CurrentTests)
    /\ (pc = "failed" /\ failedAt = "reshape_master") =>
          (error = "ValueError" /\ ~DataFrameOk(MasterTests))
    /\ (pc = "failed" /\ failedAt = "reshape_current" /\ error = "ValueError") =>
          ~DataFrameOk(CurrentTests)

C2_Witness ==
    /\ pc = "draw"
    /\ Len(MasterTests) = 2 /\ Len(dataframe_master) = 4
    /\ Len(CurrentTests) = 1 /\ Len(dataframe_current) = 1

\* C3: the combined table is the master rows followed by the current rows,
\* none lost or duplicated, each labelled with the branch it comes from; the
\* scenario of the specification gives 12 rows, 6 of each branch.
C3_ConcatKeepsAllRows ==
    Concatenated =>
        /\ Len(concated) = Len(dataframe_master) + Len(dataframe_current)
        /\ Cardinality(RowsOfBranch(concated, "master")) = SampleCount(MasterTests)
        /\ Cardinality(RowsOfBranch(concated, "current")) = SampleCount(CurrentTests)
        /\ \A k \in 1..Len(concated) :
              /\ concated[k].index = k - 1
              /\ LET src == IF k <= Len(dataframe_master) THEN dataframe_master[k]
                            ELSE dataframe_current[k - Len(dataframe_master)]
                 IN  /\ concated[k].Test = src.Test
                     /\ concated[k].Time = src.Time
                     /\ concated[k].branch =
                           (IF k <= Len(dataframe_master) THEN "master" ELSE "current")
        /\ (data_master = ScenarioMaster /\ data_current = ScenarioCurrent) =>
              /\ Len(concated) = 12
              /\ Cardinality(RowsOfBranch(concated, "master")) = 6
              /\ Cardinality(RowsOfBranch(concated, "current")) = 6

C3_Witness ==
    /\ pc = "draw"
    /\ data_master = ScenarioMaster
    /\ data_current = ScenarioCurrent
    /\ Len(concated) = 12

\* The distinct test names of the table that is plotted.
PlottedTests == { concated[k].Test : k \in 1..Len(concated) }

\* C4 as claimed: the saved figure is 15.5 wide and 0.6 high per distinct
\* test name of the combined table that is plotted.
C4_Original ==
    pc = "clear" => figsize = <<155, 6 * Cardinality(PlottedTests)>>

\* C4 amended: the saved figure is 15.5 wide and 0.6 high per test name of
\* the master dataset's mapping of the category; that is the number of
\* distinct test names plotted when the current mapping has no test outside
\* the master's and every master test has a sample in one of the two.
C4_HeightByMasterTests ==
    pc = "clear" =>
        /\ figsize = <<155, 6 * Cardinality(TestSet(MasterTests))>>
        /\ ( /\ TestSet(CurrentTests) \subseteq TestSet(MasterTests)
             /\ \A t \in TestSet(MasterTests) : t \in PlottedTests )
           => figsize[2] = 6 * Cardinality(PlottedTests)

C4_Witness ==
    /\ pc = "clear"
    /\ Cardinality(TestSet(MasterTests)) = 1
    /\ Cardinality(PlottedTests) = 2
    /\ figsize = <<155, 6>>

\* C5: a second run after a complete first run, same arguments and starting
\* directory, does not fail: it creates no directory, every image it saves
\* replaces one the first run left, and it ends with the same files in
\* results.
C5_SecondRunSucceeds ==
    (run = 2 /\ prev.outcome = "done") =>
        /\ pc # "failed"
        /\ \A i \in 1..Len(events) : events[i].op # "mkdir"
        /\ \A w \in written : w.dir = "results" /\ w.name \in prev.files
        /\ pc = "done" =>
              /\ resultsFiles = prev.files
              /\ written = { ImageOf(c) : c \in Keys(data_master) }

C5_Witness ==
    /\ run = 2
    /\ prev.outcome = "done"
    /\ pc = "done"
    /\ Cardinality(written) = 2
    /\ Cardinality(prev.files) = 2

\* C6 as claimed: with a number of positional arguments other than two the
\* run ends in a fatal error, having loaded no data and written no image.
C6_Original ==
    Len(argv) # 2 => (pc # "done" /\ loaded = {} /\ written = {})

\* C6 amended: with fewer than two positional arguments the run ends in a
\* fatal error before the working directory changes and before any image is
\* written (IndexError unless a file error comes first); with none no data
\* is loaded, with one the master file is loaded first.  Arguments after
\* the second are never read.
C6_TooFewArgumentsFatal ==
    /\ Len(argv) < 2 =>
          /\ pc \in {"prepare", "load_master", "load_current", "failed"}
          /\ pc # "failed" => ENABLED Next
          /\ pc = "failed" =>
                error \in {"IndexError", "FileNotFoundError", "JSONDecodeError"}
          /\ (pc = "failed" /\ failedAt = "load_current") => error = "IndexError"
          /\ "current" \notin loaded
          /\ Len(argv) = 0 => loaded = {}
          /\ written = {} /\ cwd = "orig"
    /\ \A i \in 1..Len(events) :
          events[i].op = "read" => events[i].arg \in {"master.json", "current.json"}

C6_Witness ==
    /\ Len(argv) = 1
    /\ pc = "failed"
    /\ error = "IndexError"
    /\ loaded = {"master"}

\* C7 as claimed: a category or a test that the master dataset has and the
\* current dataset lacks never makes the run fail.
C7_Original ==
    ( /\ InCategory
      /\ \/ ~HasKey(data_current, data_master[idx].cat)
         \/ ~(TestSet(MasterTests) \subseteq TestSet(CurrentTests)) )
    => ~(pc = "failed" /\ error = "KeyError")

\* C7 amended: a test that the current dataset lacks is no error (a failure
\* at a category the current dataset has is caused by unequal sample
\* counts, an empty combined table, a figure of height 0 or an unusable
\* file name); a category that the current dataset lacks ends the run with
\* KeyError when its current table is built: no chart is written for it,
\* and a run that completes has every master category in the current
\* dataset.
C7_MissingCategoryIsKeyError ==
    /\ (InCategory /\ ~HasKey(data_current, data_master[idx].cat)) =>
          /\ Stage \in {"reshape_master", "reshape_current"}
          /\ ImageOf(data_master[idx].cat) \notin written
    /\ (pc = "failed" /\ error = "KeyError") =>
          /\ failedAt = "reshape_current"
          /\ ~HasKey(data_current, data_master[idx].cat)
    /\ (pc = "failed" /\ InCategory /\ HasKey(data_current, data_master[idx].cat)) =>
          \/ failedAt = "reshape_master" /\ ~DataFrameOk(MasterTests)
          \/ failedAt = "reshape_current" /\ ~DataFrameOk(CurrentTests)
          \/ failedAt = "draw" /\ concated = <<>>
          \/ failedAt = "save" /\ figsize[2] = 0
          \/ failedAt = "save" /\ ~FilesystemSafe(data_master[idx].cat)
    /\ pc = "done" => Keys(data_master) \subseteq Keys(data_current)

C7_Witness ==
    /\ pc = "failed"
    /\ error = "KeyError"
    /\ idx = 2
    /\ written = {ImageOf(data_master[1].cat)}

\* C8: categories are rendered one after another in the master's order, each
\* as draw, set size, save, clear; a category starts drawing on a figure
\* that holds nothing, and until it is cleared the figure holds that
\* category only.
C8_SequentialRendering ==
    /\ \A k \in 1..Len(LoopEvents) :
          /\ ((k - 1) \div 4) + 1 <= Len(data_master)
          /\ LoopEvents[k].op = LoopOps[((k - 1) % 4) + 1]
          /\ LoopEvents[k].arg = data_master[((k - 1) \div 4) + 1].cat
    /\ pc \in {"reshape_master", "reshape_current", "concat", "draw"} => canvas = {}
    /\ pc \in {"set_size", "save", "clear"} => canvas = {data_master[idx].cat}
    /\ pc = "done" => (canvas = {} /\ Len(LoopEvents) = 4 * Len(data_master))

C8_Witness ==
    /\ pc = "draw"
    /\ idx = 2
    /\ canvas = {}
    /\ Len(LoopEvents) = 4

\* C9: the working directory changes at most once, to results, after both
\* inputs were read from the starting directory and before any image is
\* written; every image is written while it is results, and it stays
\* results through the loop.
C9_ChdirOnce ==
    /\ Cardinality({ i \in 1..Len(events) : events[i].op = "chdir" }) <= 1
    /\ \A i \in 1..Len(events) :
          /\ events[i].op = "read" => events[i].cwd = "orig"
          /\ events[i].op = "chdir" =>
                /\ events[i].cwd = "orig"
                /\ Cardinality({ j \in 1..(i - 1) : events[j].op = "read" }) = 2
          /\ events[i].op = "save" =>
                /\ events[i].cwd = "results"
                /\ \E j \in 1..(i - 1) : events[j].op = "chdir"
    /\ \A w \in written : w.dir = "results"
    /\ (InCategory \/ pc = "done") => cwd = "results"
    /\ pc \in {"prepare", "load_master", "load_current", "chdir"} => cwd = "orig"

C9_Witness ==
    /\ pc = "done"
    /\ cwd = "results"
    /\ Cardinality(written) = 2
    /\ Cardinality({ i \in 1..Len(events) : events[i].op = "read" }) = 2

\* C10: when the run fails at the k-th category, the images of the k - 1
\* categories before it are in results, no image of the k-th or a later
\* category was written, results is still a directory and the working
\* directory is still results.
C10_NoRollback ==
    (pc = "failed" /\ InCategory) =>
        /\ written = { ImageOf(data_master[i].cat) : i \in 1..(idx - 1) }
        /\ \A i \in 1..(idx - 1) : SaveName(data_master[i].cat) \in resultsFiles
        /\ resultsDir = "dir"
        /\ cwd = "results"

C10_Witness ==
    /\ pc = "failed"
    /\ InCategory
    /\ idx = 2
    /\ Cardinality(written) = 1

====
